---- MODULE Spec2Model ----
(***************************************************************************)
(* SystemRegistry of bevy_ecs (crates/bevy_ecs/src/system/system_registry.rs) *)
(*                                                                         *)
(* The registry owns a Vec of stored systems and a HashMap from labels to  *)
(* Vec<usize>.  Calls enter through the methods on World, which take the   *)
(* registry out of the world for the duration of the call                  *)
(* (World::resource_scope).  A call that runs systems is modelled step by  *)
(* step: one step per run_system_at_index (bounds check and run hook), one *)
(* per command written by apply_buffers, one when apply_buffers returns,   *)
(* one when the call returns.  A panic ends the behaviour.                 *)
(*                                                                         *)
(* Indexes stored in `labels` and in frames are the usize values of the    *)
(* code (0-based); the Vec `systems` is a TLA+ sequence, so the system at  *)
(* index i of the code is systems[i + 1].                                  *)
(***************************************************************************)
EXTENDS Integers, Sequences, FiniteSets, TLC

\* Bounds of the model.
MaxSystems == 2     \* stored systems in the registry
MaxCalls == 2       \* top-level run_system / run_systems_by_label calls

\* A system initialized against the world has seen no change yet: every
\* resource looks changed to its first run.
NeverRan == -1

VARIABLES
    systems,     \* SystemRegistry.systems
    labels,      \* SystemRegistry.labels
    world,       \* the World the systems run against
    stack,       \* the registry calls in progress, innermost last
    panicked,    \* a panic unwound the call
    call,        \* the last top-level call
    trace,       \* what the last top-level call did, in order
    nCalls,      \* number of top-level run calls so far
    fns          \* the system functions the program uses

vars == <<systems, labels, world, stack, panicked, call, trace, nCalls, fns>>

----------------------------------------------------------------------------
\* Labels

UserLabel(n) == [tag |-> "user", name |-> n]

SystemTypeIdLabel(f) == [tag |-> "type_id", name |-> f]

NoLabel == [tag |-> "none", name |-> "none"]

UserLabels == {UserLabel("Hello"), UserLabel("Goodbye")}

\* default_labels of a function system: its SystemTypeIdLabel
default_labels(f) == <<SystemTypeIdLabel(f)>>

\* The label lists a caller passes to register_system_with_labels
\* (none, or two; register_system passes one)
LabelLists == {<<>>} \cup {<<a, b>> : a, b \in UserLabels}

\* The programs: each uses the system functions of one group of the tests
Programs ==
    { {"count_up", "trigger_hello"},
      {"non_send_count_down", "trigger_non_send_count_down"},
      {"count_up_iff_changed", "count_up"},
      {"count_to_ten", "spawn_entity"} }

AllLabels == UserLabels \cup {SystemTypeIdLabel(f) : f \in fns}

----------------------------------------------------------------------------
\* Commands

SpawnCommand == [cmd |-> "spawn", arg |-> NoLabel]

RunSystemCommand(f) == [cmd |-> "run_system", arg |-> SystemTypeIdLabel(f)]

RunSystemsByLabelCommand(l) == [cmd |-> "run_systems_by_label", arg |-> l]

NoCommand == [cmd |-> "none", arg |-> NoLabel]

----------------------------------------------------------------------------
\* The world and the systems' run hooks

InitWorld ==
    [ counter          |-> 0,      \* Res<Counter>, init_resource
      ns_counter       |-> 10,     \* NonSend<Counter>, inserted as Counter(10)
      entities         |-> 0,      \* world.entities.len()
      change_tick      |-> 1,      \* World::change_tick
      detector_changed |-> 1,      \* tick at which ChangeDetector last changed
      has_registry     |-> TRUE ]  \* the SystemRegistry resource is in the world

\* ResMut::is_changed for a system whose last run was at tick `last`
is_changed(changed, last) == last = NeverRan \/ changed > last

\* (mutation: registration also runs the system once)
StoredSystemRun(f, lbls) ==
    [ system           |-> f,
      last_change_tick |-> NeverRan,
      labels           |-> lbls,
      inits            |-> 1,
      runs             |-> 1 ]

\* System::initialize and the StoredSystem wrapping it.  `labels`, `inits`
\* and `runs` are history: the labels it was registered with, how often it
\* was initialized and run.
StoredSystem(f, lbls) ==
    [ system           |-> f,
      last_change_tick |-> NeverRan,
      labels           |-> lbls,
      inits            |-> 1,
      runs             |-> 0 ]

\* The commands a system function queues when run against world w by a
\* system whose last run was at tick `last`
QueuedCommands(f, w, last) ==
    CASE f = "spawn_entity" -> <<SpawnCommand>>
      [] f = "trigger_non_send_count_down" ->
            <<RunSystemCommand("non_send_count_down")>>
      [] f = "trigger_hello" -> <<RunSystemsByLabelCommand(UserLabel("Hello"))>>
      [] f = "count_up_iff_changed" ->
            IF is_changed(w.detector_changed, last)
            THEN <<RunSystemCommand("count_up")>> ELSE <<>>
      [] f = "count_to_ten" ->
            IF (w.counter + 1) % 256 < 10
            THEN <<RunSystemCommand("count_to_ten")>> ELSE <<>>
      [] OTHER -> <<>>

\* The world after the run hook of system function f (u8 arithmetic; the
\* bounds keep the counters away from 0 and 255)
RunWorld(f, w) ==
    LET w1 == [w EXCEPT !.change_tick = @ + 1]
    IN CASE f \in {"count_up", "count_to_ten"} ->
              [w1 EXCEPT !.counter = (@ + 1) % 256]
         [] f = "non_send_count_down" ->
              [w1 EXCEPT !.ns_counter = (@ + 255) % 256]
         [] OTHER -> w1

\* The stored system after its run hook at world tick `tick`
RunStored(s, tick) ==
    [s EXCEPT !.last_change_tick = tick, !.runs = @ + 1]

----------------------------------------------------------------------------
\* SystemRegistry

\* (mutation: a new entry is inserted without the index)
PushIndexEmptyEntry(m, l, system_index) ==
    IF l \in DOMAIN m
    THEN [m EXCEPT ![l] = Append(@, system_index)]
    ELSE [k \in DOMAIN m \cup {l} |-> IF k = l THEN <<>> ELSE m[k]]

\* (mutation: the index is inserted at the front of the entry)
PushIndexFront(m, l, system_index) ==
    IF l \in DOMAIN m
    THEN [m EXCEPT ![l] = <<system_index>> \o @]
    ELSE [k \in DOMAIN m \cup {l} |-> IF k = l THEN <<system_index>> ELSE m[k]]

\* labels.get_mut(&label): push, or insert a new entry
PushIndex(m, l, system_index) ==
    IF l \in DOMAIN m
    THEN [m EXCEPT ![l] = Append(@, system_index)]
    ELSE [k \in DOMAIN m \cup {l} |-> IF k = l THEN <<system_index>> ELSE m[k]]

RECURSIVE PushIndexes(_, _, _)
PushIndexes(m, lbls, system_index) ==
    IF lbls = <<>> THEN m
    ELSE PushIndexes(PushIndex(m, Head(lbls), system_index), Tail(lbls),
                     system_index)

\* The index register_boxed_system_with_labels stores for the system it
\* has just pushed: the length of the Vec after the push
SystemIndex(systems1) == Len(systems1)

\* (mutation: a system already stored with the same function and labels is
\* reused instead of pushed again)
RegisterDeduplicating(reg, f, lbls) ==
    IF \E i \in 1..Len(reg.systems) :
           reg.systems[i].system = f /\ reg.systems[i].labels = lbls
    THEN reg
    ELSE LET systems1 == Append(reg.systems, StoredSystem(f, lbls))
         IN [ systems |-> systems1,
              labels  |-> PushIndexes(reg.labels, lbls, SystemIndex(systems1)) ]

register_boxed_system_with_labels(reg, f, lbls) ==
    LET systems1 == Append(reg.systems, StoredSystem(f, lbls))
        system_index == SystemIndex(systems1)
    IN [ systems |-> systems1,
         labels  |-> PushIndexes(reg.labels, lbls, system_index) ]

is_label_registered(reg, l) == l \in DOMAIN reg.labels

first_registered_index(reg, l) == reg.labels[l][1]

\* self.systems[index]: in bounds or a panic
InBounds(index) == index < Len(systems)

SystemAt(index) == systems[index + 1]

\* The registry as one value
Registry == [systems |-> systems, labels |-> labels]

----------------------------------------------------------------------------
\* Calls in progress

\* One registry call: the indexes still to run, the index whose
\* run_system_at_index is in progress (-1: none), where that one stands,
\* and the commands its system queued that apply_buffers has yet to write
Frame(indexes) ==
    [pending |-> indexes, cur |-> -1, phase |-> "next", queue |-> <<>>]

Top == stack[Len(stack)]

Below == SubSeq(stack, 1, Len(stack) - 1)

Idle == stack = <<>> /\ ~panicked

Event(e, index, c) == [ev |-> e, index |-> index, cmd |-> c]

CallOf(op, f, lbls) == [op |-> op, system |-> f, labels |-> lbls]

\* A panic unwinds every call in progress; the registry taken out of the
\* world by resource_scope is not put back
Panic(frames, tr, index) ==
    /\ panicked' = TRUE
    /\ stack' = frames
    /\ trace' = Append(tr, Event("panic", index, NoCommand))
    /\ world' = [world EXCEPT !.has_registry = FALSE]
    /\ UNCHANGED <<systems, labels>>

\* World::resource_scope::<SystemRegistry>: the registry is taken out of
\* the world while the closure runs; a scope opened while it is out panics
ScopeOpens(w) == w.has_registry

----------------------------------------------------------------------------
\* The methods on World, entered with the frames `frames` in progress

World_register_system_with_labels(f, lbls) ==
    IF ~ScopeOpens(world) THEN Panic(stack, <<>>, -1)
    ELSE LET reg1 == register_boxed_system_with_labels(Registry, f, lbls)
         IN /\ systems' = reg1.systems
            /\ labels' = reg1.labels
            /\ trace' = <<Event("register", Len(systems), NoCommand)>>
            /\ UNCHANGED <<world, stack, panicked>>

\* (mutation: the registry is reached without resource_scope, so a call
\* made while another is in progress goes through)
RunSystemReentrant(f, frames, tr, w) ==
    LET automatic_system_label == SystemTypeIdLabel(f)
        registered == is_label_registered(Registry, automatic_system_label)
        reg1 == IF registered THEN Registry
                ELSE register_boxed_system_with_labels(
                         Registry, f, default_labels(f))
        index == first_registered_index(reg1, automatic_system_label)
    IN /\ systems' = reg1.systems
       /\ labels' = reg1.labels
       /\ stack' = Append(frames, Frame(<<index>>))
       /\ world' = w
       /\ trace' = tr
       /\ panicked' = FALSE

World_run_system(f, frames, tr, w) ==
    IF ~ScopeOpens(w) THEN Panic(frames, tr, -1)
    ELSE LET automatic_system_label == SystemTypeIdLabel(f)
             registered == is_label_registered(Registry, automatic_system_label)
             reg1 == IF registered THEN Registry
                     ELSE register_boxed_system_with_labels(
                              Registry, f, default_labels(f))
             index == first_registered_index(reg1, automatic_system_label)
         IN /\ systems' = reg1.systems
            /\ labels' = reg1.labels
            /\ stack' = Append(frames, Frame(<<index>>))
            /\ world' = [w EXCEPT !.has_registry = FALSE]
            /\ trace' = IF registered THEN tr
                        ELSE Append(tr, Event("register", Len(systems), NoCommand))
            /\ panicked' = FALSE

\* (mutation: unwrap_or_default, an unknown label runs nothing)
MatchingOrEmpty(reg, l) ==
    [ found |-> TRUE,
      indexes |-> IF l \in DOMAIN reg.labels THEN reg.labels[l] ELSE <<>> ]

\* labels.get(&boxed_label): the indexes to run, or none
MatchingSystemIndexes(reg, l) ==
    IF l \in DOMAIN reg.labels
    THEN [found |-> TRUE, indexes |-> reg.labels[l]]
    ELSE [found |-> FALSE, indexes |-> <<>>]

\* (mutation: the entry is taken out of the label index, labels.remove,
\* instead of cloned)
RunLabelDraining(l, frames, tr, w) ==
    IF ~ScopeOpens(w) THEN Panic(frames, tr, -1)
    ELSE LET matching == MatchingSystemIndexes(Registry, l)
         IN IF ~matching.found THEN Panic(frames, tr, -1)
            ELSE /\ stack' = Append(frames, Frame(matching.indexes))
                 /\ world' = [w EXCEPT !.has_registry = FALSE]
                 /\ trace' = tr
                 /\ panicked' = FALSE
                 /\ labels' = [k \in DOMAIN labels \ {l} |-> labels[k]]
                 /\ UNCHANGED systems

World_run_systems_by_label(l, frames, tr, w) ==
    IF ~ScopeOpens(w) THEN Panic(frames, tr, -1)
    ELSE LET matching == MatchingSystemIndexes(Registry, l)
         IN IF ~matching.found THEN Panic(frames, tr, -1)
            ELSE /\ stack' = Append(frames, Frame(matching.indexes))
                 /\ world' = [w EXCEPT !.has_registry = FALSE]
                 /\ trace' = tr
                 /\ panicked' = FALSE
                 /\ UNCHANGED <<systems, labels>>

\* (mutation: the command is dropped instead of written)
DropCommand(f, frames, tr, w) ==
    /\ stack' = frames
    /\ trace' = tr
    /\ world' = w
    /\ UNCHANGED <<systems, labels, panicked>>

\* (mutation: the write never completes, the command stays at the head of
\* the queue)
WriteNeverCompletes(f, frames, tr, w) ==
    /\ stack' = stack
    /\ trace' = trace
    /\ world' = w
    /\ UNCHANGED <<systems, labels, panicked>>

\* Command::write of the two registry commands
RunSystemCommand_write(f, frames, tr, w) == World_run_system(f, frames, tr, w)

RunSystemsByLabelCommand_write(l, frames, tr, w) ==
    World_run_systems_by_label(l, frames, tr, w)

----------------------------------------------------------------------------
\* Top-level calls

RegisterSystem(f, l) ==
    /\ Idle
    /\ Len(systems) < MaxSystems
    /\ call' = CallOf("register_system", f, <<l>>)
    /\ World_register_system_with_labels(f, <<l>>)
    /\ UNCHANGED <<nCalls, fns>>

RegisterSystemWithLabels(f, lbls) ==
    /\ Idle
    /\ Len(systems) < MaxSystems
    /\ call' = CallOf("register_system_with_labels", f, lbls)
    /\ World_register_system_with_labels(f, lbls)
    /\ UNCHANGED <<nCalls, fns>>

RunSystem(f) ==
    /\ Idle
    /\ nCalls < MaxCalls
    /\ is_label_registered(Registry, SystemTypeIdLabel(f))
          \/ Len(systems) < MaxSystems
    /\ call' = CallOf("run_system", f, <<>>)
    /\ nCalls' = nCalls + 1
    /\ World_run_system(f, <<>>, <<>>, world)
    /\ UNCHANGED fns

RunSystemsByLabel(l) ==
    /\ Idle
    /\ nCalls < MaxCalls
    /\ call' = CallOf("run_systems_by_label", "none", <<l>>)
    /\ nCalls' = nCalls + 1
    /\ World_run_systems_by_label(l, <<>>, <<>>, world)
    /\ UNCHANGED fns

\* world.resource_mut::<ChangeDetector>().set_changed()
SetChanged ==
    /\ Idle
    /\ "count_up_iff_changed" \in fns
    /\ world.detector_changed # world.change_tick
    /\ world' = [world EXCEPT !.detector_changed = world.change_tick]
    /\ call' = CallOf("set_changed", "none", <<>>)
    /\ trace' = <<>>
    /\ UNCHANGED <<systems, labels, stack, panicked, nCalls, fns>>

----------------------------------------------------------------------------
\* Steps of a call in progress

\* (mutation: apply_buffers is not called, the queued commands are lost)
RunWithoutApplyBuffers(frame, index, cmds) ==
    [frame EXCEPT !.pending = Tail(@), !.cur = index, !.phase = "apply",
                  !.queue = <<>>]

\* The frame of run_system_at_index once the run hook has returned:
\* apply_buffers is next, with the commands the system queued
run_system_at_index(frame, index, cmds) ==
    [frame EXCEPT !.pending = Tail(@), !.cur = index, !.phase = "apply",
                  !.queue = cmds]

RECURSIVE QueueEvents(_, _)
QueueEvents(index, cmds) ==
    IF cmds = <<>> THEN <<>>
    ELSE <<Event("queue", index, Head(cmds))>> \o QueueEvents(index, Tail(cmds))

\* run_system_at_index: self.systems[index], then the run hook
StepRun ==
    /\ ~panicked /\ stack # <<>>
    /\ Top.phase = "next" /\ Top.pending # <<>>
    /\ LET index == Head(Top.pending)
       IN IF ~InBounds(index) THEN Panic(stack, trace, index)
          ELSE LET s == SystemAt(index)
                   cmds == QueuedCommands(s.system, world, s.last_change_tick)
               IN /\ systems' = [systems EXCEPT ![index + 1] =
                                     RunStored(s, world.change_tick)]
                  /\ world' = RunWorld(s.system, world)
                  /\ stack' = Append(Below, run_system_at_index(Top, index, cmds))
                  /\ trace' = Append(trace, Event("run", index, NoCommand))
                                  \o QueueEvents(index, cmds)
                  /\ UNCHANGED <<labels, panicked>>
    /\ UNCHANGED <<call, nCalls, fns>>

\* apply_buffers writes the next queued command to the world
StepApply ==
    /\ ~panicked /\ stack # <<>>
    /\ Top.phase = "apply" /\ Top.queue # <<>>
    /\ LET c == Head(Top.queue)
           frames == Append(Below, [Top EXCEPT !.queue = Tail(@)])
           tr == Append(trace, Event("write", Top.cur, c))
       IN CASE c.cmd = "run_system" ->
                  RunSystemCommand_write(c.arg.name, frames, tr, world)
            [] c.cmd = "run_systems_by_label" ->
                  RunSystemsByLabelCommand_write(c.arg, frames, tr, world)
            [] OTHER ->
                  /\ world' = [world EXCEPT !.entities = @ + 1]
                  /\ stack' = frames
                  /\ trace' = tr
                  /\ UNCHANGED <<systems, labels, panicked>>
    /\ UNCHANGED <<call, nCalls, fns>>

\* apply_buffers has written every command: run_system_at_index returns
StepApplied ==
    /\ ~panicked /\ stack # <<>>
    /\ Top.phase = "apply" /\ Top.queue = <<>>
    /\ stack' = Append(Below, [Top EXCEPT !.phase = "next", !.cur = -1])
    /\ trace' = Append(trace, Event("applied", Top.cur, NoCommand))
    /\ UNCHANGED <<systems, labels, world, panicked, call, nCalls, fns>>

\* Every index has run: the call returns and resource_scope puts the
\* registry back into the world
StepReturn ==
    /\ ~panicked /\ stack # <<>>
    /\ Top.phase = "next" /\ Top.pending = <<>>
    /\ stack' = Below
    /\ world' = [world EXCEPT !.has_registry = TRUE]
    /\ UNCHANGED <<systems, labels, panicked, call, trace, nCalls, fns>>

----------------------------------------------------------------------------
\* Specification

Init ==
    /\ systems = <<>>
    /\ labels = [l \in {} |-> <<>>]
    /\ world = InitWorld
    /\ stack = <<>>
    /\ panicked = FALSE
    /\ call = CallOf("none", "none", <<>>)
    /\ trace = <<>>
    /\ nCalls = 0
    /\ fns \in Programs

Next ==
    \/ \E f \in fns, l \in AllLabels : RegisterSystem(f, l)
    \/ \E f \in fns, lbls \in LabelLists : RegisterSystemWithLabels(f, lbls)
    \/ \E f \in fns : RunSystem(f)
    \/ \E l \in AllLabels : RunSystemsByLabel(l)
    \/ SetChanged
    \/ StepRun
    \/ StepApply
    \/ StepApplied
    \/ StepReturn

Spec == Init /\ [][Next]_vars

\* A call in progress is carried on: the run hooks, apply_buffers and the
\* return are straight-line code of one thread
FairSpec ==
    /\ Spec
    /\ WF_vars(StepRun)
    /\ WF_vars(StepApply)
    /\ WF_vars(StepApplied)
    /\ WF_vars(StepReturn)

----------------------------------------------------------------------------
\* Vocabulary of the properties

\* The system was registered with label l among its labels
HasLabel(s, l) == \E j \in 1..Len(s.labels) : s.labels[j] = l

\* The indexes of the Vec, in order
Slots == [i \in 1..Len(systems) |-> i - 1]

\* The indexes of the systems registered under l, in registration order
SlotsUnder(l) == SelectSeq(Slots, LAMBDA i : HasLabel(SystemAt(i), l))

\* The indexes whose run hook the last top-level call invoked, in order
RunIndexes ==
    LET r == SelectSeq(trace, LAMBDA e : e.ev = "run")
    IN [k \in 1..Len(r) |-> r[k].index]

Range(q) == {q[k] : k \in 1..Len(q)}

\* The last top-level call is over: it returned or it panicked
Finished == panicked \/ stack = <<>>

Returned == stack = <<>> /\ ~panicked

\* Every stored system was registered by run_system
OnlyAutomatic ==
    \A i \in 1..Len(systems) : systems[i].labels = default_labels(systems[i].system)

----------------------------------------------------------------------------
\* C1: every position stored in the label index is a valid index into the
\* registry's systems and is the slot of a system that was registered
\* together with that label.
C1_StoredPositionIsSlot ==
    \A l \in DOMAIN labels : \A k \in 1..Len(labels[l]) :
        /\ InBounds(labels[l][k])
        /\ HasLabel(SystemAt(labels[l][k]), l)

\* C2: when exactly one system is registered under a label, a finished run
\* of that label (or run_system of the identity whose automatic label it
\* is) has not panicked and has run that very system exactly once.
C2_SingleUnitRuns ==
    LET l == IF call.op = "run_system" THEN SystemTypeIdLabel(call.system)
             ELSE call.labels[1]
    IN (/\ call.op \in {"run_system", "run_systems_by_label"}
        /\ Finished
        /\ Len(SlotsUnder(l)) = 1)
       => (~panicked /\ RunIndexes = SlotsUnder(l))

\* C3: a finished run_systems_by_label of a label with n >= 1 registered
\* systems has run exactly those systems, each once, in registration order.
C3_LabelRunsAllInOrder ==
    (/\ call.op = "run_systems_by_label"
     /\ Finished
     /\ Len(SlotsUnder(call.labels[1])) >= 1)
    => (~panicked /\ RunIndexes = SlotsUnder(call.labels[1]))

\* C4: in a registry filled by run_system alone, a finished run_system call
\* for an identity leaves exactly one stored system for that identity and
\* has executed that system.
C4_OneUnitPerIdentity ==
    (/\ call.op = "run_system"
     /\ Finished
     /\ OnlyAutomatic)
    => LET own == SlotsUnder(SystemTypeIdLabel(call.system))
       IN /\ Len(own) = 1
          /\ ~panicked
          /\ RunIndexes # <<>>
          /\ RunIndexes[1] = own[1]

\* C5: the state of the system cached for an identity persists across
\* run_system calls: after a finished run_system call for the identity the
\* cached system holds the state its execution left (it has run, and its
\* change-detection cursor is no longer the initial one).
C5_CachedStatePersists ==
    (/\ call.op = "run_system"
     /\ Finished
     /\ OnlyAutomatic)
    => LET own == SlotsUnder(SystemTypeIdLabel(call.system))
       IN /\ own # <<>>
          /\ SystemAt(own[1]).runs >= 1
          /\ SystemAt(own[1]).last_change_tick # NeverRan

\* C6: run_systems_by_label with a label under which no system was ever
\* registered panics; it runs no system and changes neither the systems
\* nor the label index.
C6_UnregisteredLabelPanics ==
    [][ (/\ call'.op = "run_systems_by_label"
         /\ nCalls' = nCalls + 1
         /\ SlotsUnder(call'.labels[1]) = <<>>)
        => (/\ panicked'
            /\ systems' = systems
            /\ labels' = labels
            /\ [world' EXCEPT !.has_registry = TRUE] = world
            /\ \A k \in 1..Len(trace') : trace'[k].ev # "run") ]_vars

\* A run of an unregistered label on a registry that holds systems has
\* panicked.
C6_Witness ==
    /\ panicked
    /\ call.op = "run_systems_by_label"
    /\ SlotsUnder(call.labels[1]) = <<>>
    /\ systems # <<>>

\* Number of events of kind e among the first n of the trace
CountEvents(e, n) == Cardinality({k \in 1..n : trace[k].ev = e})

\* The index of the last run hook invoked before event q of the trace
LastRunBefore(q) ==
    LET ks == {k \in 1..(q - 1) : trace[k].ev = "run"}
    IN IF ks = {} THEN -1
       ELSE trace[CHOOSE k \in ks : \A j \in ks : j <= k].index

\* Total number of executions of stored systems of function f
RECURSIVE RunsOf(_, _)
RunsOf(f, n) ==
    IF n = 0 THEN 0
    ELSE RunsOf(f, n - 1) + (IF systems[n].system = f THEN systems[n].runs ELSE 0)

\* C7: the commands a system queues are written to the world right after
\* its run hook, by its own apply_buffers: before any other system's run
\* hook begins and before the call returns.  Once a call has returned,
\* every spawn queued by an executed spawn_entity is in the world.
C7_BuffersAppliedAfterRun ==
    /\ \A q \in 1..Len(trace) :
          /\ trace[q].ev = "run"
                => CountEvents("queue", q) = CountEvents("write", q)
          /\ trace[q].ev \in {"write", "applied"}
                => trace[q].index = LastRunBefore(q)
    /\ Returned =>
          /\ CountEvents("queue", Len(trace)) = CountEvents("write", Len(trace))
          /\ world.entities = RunsOf("spawn_entity", Len(systems))

\* A run_system call has returned after a system spawned an entity
C7_Witness ==
    /\ Returned
    /\ call.op = "run_system"
    /\ world.entities = 1
    /\ \E k \in 1..Len(trace) :
          trace[k].ev = "write" /\ trace[k].cmd = SpawnCommand

\* The system functions whose run hook queues a deferred invocation
DeferringSystems == {"trigger_non_send_count_down", "trigger_hello"}

\* C8: a finished run_system call of a system that queues a deferred
\* invocation has not panicked, and the requested system ran once the
\* command was written, after the requesting run hook.
C8_DeferredInvocationRuns ==
    (/\ call.op = "run_system"
     /\ Finished
     /\ call.system \in DeferringSystems)
    => /\ ~panicked
       /\ \E q \in 1..Len(trace) :
             /\ trace[q].ev = "write"
             /\ trace[q].cmd.cmd \in {"run_system", "run_systems_by_label"}
             /\ \E r \in (q + 1)..Len(trace) : trace[r].ev = "run"

C10_MultiLabelRuns ==
    (/\ call.op = "run_systems_by_label"
     /\ Finished)
    => LET l == call.labels[1]
       IN /\ \A i \in Range(RunIndexes) : HasLabel(SystemAt(i), l)
          /\ \A i \in Range(Slots) :
                (HasLabel(SystemAt(i), l) /\ Len(SystemAt(i).labels) = 2)
                    => i \in Range(RunIndexes)

\* The manual registration calls
RegisterOps == {"register_system", "register_system_with_labels"}

\* C11: every manual registration call appends exactly one new stored
\* system, in its initial state, and leaves the systems stored before as
\* they were, also when a system of the same function is already stored
\* under the same labels.
C11_RegistrationAppendsOne ==
    [][ (Idle /\ call'.op \in RegisterOps /\ vars' # vars)
        => /\ Len(systems') = Len(systems) + 1
           /\ SubSeq(systems', 1, Len(systems)) = systems
           /\ systems'[Len(systems')].system = call'.system
           /\ systems'[Len(systems')].labels = call'.labels
           /\ systems'[Len(systems')].runs = 0
           /\ systems'[Len(systems')].last_change_tick = NeverRan ]_vars

\* Two systems of one function are stored under the same labels and only
\* one of them has run
C11_Witness ==
    /\ Len(systems) = 2
    /\ systems[1].system = systems[2].system
    /\ systems[1].labels = systems[2].labels
    /\ systems[1].labels # <<>>
    /\ systems[1].runs # systems[2].runs

\* C12: when more than one system is indexed under the automatic label of
\* an identity, a finished run_system call for the identity has registered
\* nothing and has run the first-registered of them, once, and no other.
C12_FirstRegisteredRuns ==
    LET own == SlotsUnder(SystemTypeIdLabel(call.system))
    IN (/\ call.op = "run_system"
        /\ Finished
        /\ Len(own) >= 2)
       => /\ RunIndexes = <<own[1]>>
          /\ \A k \in 1..Len(trace) : trace[k].ev # "register"

\* C13: every key of the label index maps to a non-empty position
\* sequence, and is_label_registered(l) is true exactly when a system has
\* been registered under l.
C13_NoEmptyEntry ==
    /\ \A l \in DOMAIN labels : labels[l] # <<>>
    /\ \A l \in AllLabels :
          is_label_registered(Registry, l) <=> SlotsUnder(l) # <<>>

\* One label has a system registered, another has none
C13_Witness ==
    /\ \E l \in AllLabels : is_label_registered(Registry, l)
    /\ \E l \in AllLabels : ~is_label_registered(Registry, l)
    /\ \E l \in DOMAIN labels : Len(labels[l]) = 2

\* C14: the registry is append-only.  No step removes or replaces a stored
\* system or moves it to another slot, and the position sequence of every
\* label before a step is a prefix of its position sequence after it.
C14_AppendOnly ==
    [][ /\ Len(systems') >= Len(systems)
        /\ \A i \in 1..Len(systems) :
              /\ systems'[i].system = systems[i].system
              /\ systems'[i].labels = systems[i].labels
        /\ \A l \in DOMAIN labels :
              /\ l \in DOMAIN labels'
              /\ Len(labels'[l]) >= Len(labels[l])
              /\ SubSeq(labels'[l], 1, Len(labels[l])) = labels[l] ]_vars

\* A label has two positions, appended by two registrations, and a call
\* has run since
C14_Witness ==
    /\ \E l \in DOMAIN labels :
          Len(labels[l]) = 2 /\ labels[l][1] < labels[l][2]
    /\ nCalls >= 1
    /\ \E i \in 1..Len(systems) : systems[i].runs >= 1

\* C15: a registration initializes the new system once and does not run
\* it: it enters with run count 0, the world and the run counts of the
\* other systems are unchanged by the registration call, and no step
\* initializes a stored system again.
C15_InitializedOnceNotRun ==
    [][ /\ Len(systems') >= Len(systems)
        /\ \A i \in 1..Len(systems) : systems'[i].inits = systems[i].inits
        /\ \A i \in (Len(systems) + 1)..Len(systems') :
              systems'[i].inits = 1 /\ systems'[i].runs = 0
        /\ (Idle /\ call'.op \in RegisterOps /\ vars' # vars)
              => /\ world' = world
                 /\ \A i \in 1..Len(systems) : systems'[i].runs = systems[i].runs
                 /\ \A k \in 1..Len(trace') : trace'[k].ev # "run" ]_vars

\* After a run call has returned, one system has run, another has not,
\* and each has been initialized once
C15_Witness ==
    /\ Returned
    /\ call.op \in {"run_system", "run_systems_by_label"}
    /\ \E i, j \in 1..Len(systems) :
          systems[i].runs >= 1 /\ systems[j].runs = 0
    /\ \A i \in 1..Len(systems) : systems[i].inits = 1

Executing == {k \in 1..Len(stack) : stack[k].phase = "apply"}

C19_StrictlyIncreasing ==
    /\ \A l \in DOMAIN labels : \A i, j \in 1..Len(labels[l]) :
          i < j => labels[l][i] < labels[l][j]
    /\ call.op = "run_systems_by_label"
          => \A i, j \in 1..Len(RunIndexes) :
                i < j => RunIndexes[i] # RunIndexes[j]

====
